---------------------------- MODULE Spec2Model ----------------------------
(***************************************************************************)
(* go-blog: a CRUD HTTP service for users and posts on top of PostgreSQL.  *)
(*                                                                         *)
(* The model has three layers, as the program has:                         *)
(*   - the SQL statements the store issues, with the constraints of the    *)
(*     two tables (primary keys, UNIQUE(email), the foreign key of posts   *)
(*     with ON DELETE CASCADE, the UUID type of the id columns);           *)
(*   - the store methods (db package): GetUser, CreateUser, ...;           *)
(*   - the HTTP handlers (decode, validate, call the store, respond).      *)
(*                                                                         *)
(* Spec runs the requests one after the other (each handler is one atomic  *)
(* action).  ConcSpec runs several requests at once: every SQL statement   *)
(* is atomic (autocommit), a handler is not.  In both, a caller may invoke *)
(* App.Close, which drops the two tables and closes the connection pool;   *)
(* every store call after it fails.                                        *)
(***************************************************************************)
EXTENDS Naturals, FiniteSets, Sequences

VARIABLES
    users,      \* rows of table users: records [id, name, email]
    posts,      \* rows of table posts: records [id, user_id, title, content]
    conn,       \* how far App.Close has got: "open", "postsDropped",
                \* "tablesDropped", "closed"
    exch,       \* sequential service: the request/response exchange on the wire
    inflight,   \* concurrent service: slot -> the request a goroutine is serving
    nreq        \* concurrent service: number of requests accepted so far

vars == <<users, posts, conn, exch, inflight, nreq>>

(***************************************************************************)
(* Value domains.                                                          *)
(***************************************************************************)
\* Strings that PostgreSQL accepts as a value of type UUID.
UUIDs == {"id1", "id2"}
\* A non-empty string that is not the text of a UUID.
NotAUUID == "not-a-uuid"
\* Identifiers a client can send: empty, well-formed, malformed.
IDs == {""} \cup UUIDs \cup {NotAUUID}
\* What the injected identifier provider can return: a UUID (GenID), or the
\* empty string (the stub of the tests with both flags off).
GenIDs == {""} \cup UUIDs
Names == {"", "n1"}
Emails == {"", "e1", "e2", "e3"}
Titles == {"", "t1"}
Contents == {"", "c1"}

\* Slots of the concurrent service (one goroutine per request in flight).
Slots == {1, 2}
\* Bound of ConcSpec: the number of requests the concurrent service accepts.
MaxRequests == 4

StatusOK == 200
StatusBadRequest == 400
StatusInternalServerError == 500

(***************************************************************************)
(* Errors.  A Go error is modelled by the sequence of its message parts,   *)
(* outermost wrapper first; nil is the empty sequence.                     *)
(***************************************************************************)
Nil == <<>>
ErrBadRequest == <<"Invalid request: missing required parameters">>
ErrDecode == <<"json: cannot decode request body">>
ErrNoRows == <<"sql: no rows in result set">>
ErrInvalidUUID == <<"pq: invalid input syntax for type uuid">>
ErrUniqueViolation == <<"pq: duplicate key value violates unique constraint">>
ErrForeignKeyViolation == <<"pq: insert or update on table posts violates foreign key constraint">>
ErrUndefinedTable == <<"pq: relation does not exist">>
ErrDependentObjects == <<"pq: cannot drop table users because other objects depend on it">>
ErrDBClosed == <<"sql: database is closed">>

\* xerrors.Errorf(prefix + ": %w", err)
Wrap(prefix, err) == <<prefix>> \o err

(***************************************************************************)
(* The database: the two tables, and what App.Close has left of them.      *)
(***************************************************************************)
\* A database with both tables and an open connection pool.
MkDB(u, p) == [users |-> u, posts |-> p, conn |-> "open"]
EmptyDB == MkDB({}, {})
DB == [users |-> users, posts |-> posts, conn |-> conn]

\* The rows of db replaced by u and p.
Rows(db, u, p) == [db EXCEPT !.users = u, !.posts = p]
\* Table users exists and the pool is open; likewise table posts.
HasUsers(db) == db.conn \in {"open", "postsDropped"}
HasPosts(db) == db.conn = "open"
\* The error of a statement on a closed pool or on a dropped table.
ConnError(db) == IF db.conn = "closed" THEN ErrDBClosed ELSE ErrUndefinedTable

\* models.User and models.Post
User(id, name, email) == [id |-> id, name |-> name, email |-> email]
Post(id, userID, title, content) ==
    [id |-> id, user_id |-> userID, title |-> title, content |-> content]

\* Conversion of a text parameter to a column of type UUID.
IsUUID(s) == s \in UUIDs

(***************************************************************************)
(* The SQL statements of the store, each executed atomically by the        *)
(* database.  A query returns [rows, err], a statement [db, err].          *)
(***************************************************************************)
\* "SELECT * FROM users WHERE id = $1"
SelectUser(db, id) ==
    IF ~HasUsers(db) THEN [rows |-> {}, err |-> ConnError(db)]
    ELSE IF ~IsUUID(id) THEN [rows |-> {}, err |-> ErrInvalidUUID]
    ELSE [rows |-> {u \in db.users : u.id = id}, err |-> Nil]

\* Fault: the users table without UNIQUE (email).
InsertUser_NoUniqueEmail(db, id, name, email) ==
    IF ~HasUsers(db) THEN [db |-> db, err |-> ConnError(db)]
    ELSE IF ~IsUUID(id) THEN [db |-> db, err |-> ErrInvalidUUID]
    ELSE IF \E u \in db.users : u.id = id
        THEN [db |-> db, err |-> ErrUniqueViolation]
    ELSE [db |-> Rows(db, db.users \cup {User(id, name, email)}, db.posts),
          err |-> Nil]

\* "INSERT INTO users(id, name, email) VALUES($1, $2, $3)"
\* under PRIMARY KEY (id) and UNIQUE (email).
InsertUser(db, id, name, email) ==
    IF ~HasUsers(db) THEN [db |-> db, err |-> ConnError(db)]
    ELSE IF ~IsUUID(id) THEN [db |-> db, err |-> ErrInvalidUUID]
    ELSE IF \E u \in db.users : u.id = id
        THEN [db |-> db, err |-> ErrUniqueViolation]
    ELSE IF \E u \in db.users : u.email = email
        THEN [db |-> db, err |-> ErrUniqueViolation]
    ELSE [db |-> Rows(db, db.users \cup {User(id, name, email)}, db.posts),
          err |-> Nil]

\* Fault: the UPDATE of the name as an upsert, creating the row it misses.
UpdateUserName_Upsert(db, name, id) ==
    IF ~HasUsers(db) THEN [db |-> db, err |-> ConnError(db)]
    ELSE IF ~IsUUID(id) THEN [db |-> db, err |-> ErrInvalidUUID]
    ELSE IF \E u \in db.users : u.id = id
        THEN [db |-> Rows(db, {IF u.id = id THEN User(u.id, name, u.email) ELSE u
                              : u \in db.users}, db.posts),
              err |-> Nil]
    ELSE [db |-> Rows(db, db.users \cup {User(id, name, "")}, db.posts),
          err |-> Nil]

\* "UPDATE users SET name = $1 WHERE id = $2"
UpdateUserName(db, name, id) ==
    IF ~HasUsers(db) THEN [db |-> db, err |-> ConnError(db)]
    ELSE IF ~IsUUID(id) THEN [db |-> db, err |-> ErrInvalidUUID]
    ELSE [db |-> Rows(db, {IF u.id = id THEN User(u.id, name, u.email) ELSE u
                          : u \in db.users}, db.posts),
          err |-> Nil]

\* Fault: the users table without UNIQUE (email).
UpdateUserEmail_NoUnique(db, email, id) ==
    IF ~HasUsers(db) THEN [db |-> db, err |-> ConnError(db)]
    ELSE IF ~IsUUID(id) THEN [db |-> db, err |-> ErrInvalidUUID]
    ELSE [db |-> Rows(db, {IF u.id = id THEN User(u.id, u.name, email) ELSE u
                          : u \in db.users}, db.posts),
          err |-> Nil]

\* "UPDATE users SET email = $1 WHERE id = $2" under UNIQUE (email).
UpdateUserEmail(db, email, id) ==
    IF ~HasUsers(db) THEN [db |-> db, err |-> ConnError(db)]
    ELSE IF ~IsUUID(id) THEN [db |-> db, err |-> ErrInvalidUUID]
    ELSE IF /\ \E u \in db.users : u.id = id
            /\ \E v \in db.users : v.id # id /\ v.email = email
        THEN [db |-> db, err |-> ErrUniqueViolation]
    ELSE [db |-> Rows(db, {IF u.id = id THEN User(u.id, u.name, email) ELSE u
                          : u \in db.users}, db.posts),
          err |-> Nil]

\* Fault: the foreign key of posts without ON DELETE CASCADE enforcement.
DeleteUserRow_NoCascade(db, id) ==
    IF ~HasUsers(db) THEN [db |-> db, err |-> ConnError(db)]
    ELSE IF ~IsUUID(id) THEN [db |-> db, err |-> ErrInvalidUUID]
    ELSE [db |-> Rows(db, {u \in db.users : u.id # id}, db.posts), err |-> Nil]

\* "DELETE FROM users WHERE id = $1"; the foreign key of posts is declared
\* ON DELETE CASCADE, so the posts of the user go with it.
DeleteUserRow(db, id) ==
    IF ~HasUsers(db) THEN [db |-> db, err |-> ConnError(db)]
    ELSE IF ~IsUUID(id) THEN [db |-> db, err |-> ErrInvalidUUID]
    ELSE [db |-> Rows(db, {u \in db.users : u.id # id},
                      {p \in db.posts : p.user_id # id}),
          err |-> Nil]

\* Fault: the SELECT of a user's posts without its WHERE clause.
SelectPostsOfUser_NoWhere(db, userID) ==
    IF ~HasPosts(db) THEN [rows |-> {}, err |-> ConnError(db)]
    ELSE IF ~IsUUID(userID) THEN [rows |-> {}, err |-> ErrInvalidUUID]
    ELSE [rows |-> db.posts, err |-> Nil]

\* "SELECT * FROM posts WHERE user_id = $1"
SelectPostsOfUser(db, userID) ==
    IF ~HasPosts(db) THEN [rows |-> {}, err |-> ConnError(db)]
    ELSE IF ~IsUUID(userID) THEN [rows |-> {}, err |-> ErrInvalidUUID]
    ELSE [rows |-> {p \in db.posts : p.user_id = userID}, err |-> Nil]

\* "SELECT * FROM posts WHERE id = $1"
SelectPost(db, postID) ==
    IF ~HasPosts(db) THEN [rows |-> {}, err |-> ConnError(db)]
    ELSE IF ~IsUUID(postID) THEN [rows |-> {}, err |-> ErrInvalidUUID]
    ELSE [rows |-> {p \in db.posts : p.id = postID}, err |-> Nil]

\* Fault: the posts table without the foreign key.
InsertPost_NoForeignKey(db, postID, userID, title, content) ==
    IF ~HasPosts(db) THEN [db |-> db, err |-> ConnError(db)]
    ELSE IF ~IsUUID(postID) \/ ~IsUUID(userID)
        THEN [db |-> db, err |-> ErrInvalidUUID]
    ELSE IF \E p \in db.posts : p.id = postID
        THEN [db |-> db, err |-> ErrUniqueViolation]
    ELSE [db |-> Rows(db, db.users,
                      db.posts \cup {Post(postID, userID, title, content)}),
          err |-> Nil]

\* "INSERT INTO posts(id, user_id, title, content) VALUES($1, $2, $3, $4)"
\* under PRIMARY KEY (id) and FOREIGN KEY (user_id) REFERENCES users (id).
InsertPost(db, postID, userID, title, content) ==
    IF ~HasPosts(db) THEN [db |-> db, err |-> ConnError(db)]
    ELSE IF ~IsUUID(postID) \/ ~IsUUID(userID)
        THEN [db |-> db, err |-> ErrInvalidUUID]
    ELSE IF \E p \in db.posts : p.id = postID
        THEN [db |-> db, err |-> ErrUniqueViolation]
    ELSE IF ~\E u \in db.users : u.id = userID
        THEN [db |-> db, err |-> ErrForeignKeyViolation]
    ELSE [db |-> Rows(db, db.users,
                      db.posts \cup {Post(postID, userID, title, content)}),
          err |-> Nil]

\* Fault: the UPDATE of the title writing the user_id column.
UpdatePostTitle_SetsUserID(db, title, postID) ==
    IF ~HasPosts(db) THEN [db |-> db, err |-> ConnError(db)]
    ELSE IF ~IsUUID(postID) THEN [db |-> db, err |-> ErrInvalidUUID]
    ELSE [db |-> Rows(db, db.users,
                      {IF p.id = postID
                          THEN Post(p.id, title, p.title, p.content) ELSE p
                          : p \in db.posts}),
          err |-> Nil]

\* "UPDATE posts SET title = $1 WHERE id = $2"
UpdatePostTitle(db, title, postID) ==
    IF ~HasPosts(db) THEN [db |-> db, err |-> ConnError(db)]
    ELSE IF ~IsUUID(postID) THEN [db |-> db, err |-> ErrInvalidUUID]
    ELSE [db |-> Rows(db, db.users,
                      {IF p.id = postID
                          THEN Post(p.id, p.user_id, title, p.content) ELSE p
                          : p \in db.posts}),
          err |-> Nil]

\* "UPDATE posts SET content = $1 WHERE id = $2"
UpdatePostContent(db, content, postID) ==
    IF ~HasPosts(db) THEN [db |-> db, err |-> ConnError(db)]
    ELSE IF ~IsUUID(postID) THEN [db |-> db, err |-> ErrInvalidUUID]
    ELSE [db |-> Rows(db, db.users,
                      {IF p.id = postID
                          THEN Post(p.id, p.user_id, p.title, content) ELSE p
                          : p \in db.posts}),
          err |-> Nil]

\* "DELETE FROM posts WHERE id = $1"
DeletePostRow(db, postID) ==
    IF ~HasPosts(db) THEN [db |-> db, err |-> ConnError(db)]
    ELSE IF ~IsUUID(postID) THEN [db |-> db, err |-> ErrInvalidUUID]
    ELSE [db |-> Rows(db, db.users, {p \in db.posts : p.id # postID}),
          err |-> Nil]

\* "DROP TABLE posts;"
DropTablePosts(db) ==
    IF ~HasPosts(db) THEN [db |-> db, err |-> ConnError(db)]
    ELSE [db |-> [db EXCEPT !.posts = {}, !.conn = "postsDropped"], err |-> Nil]

\* "DROP TABLE users;": refused while the foreign key of posts refers to it.
DropTableUsers(db) ==
    IF ~HasUsers(db) THEN [db |-> db, err |-> ConnError(db)]
    ELSE IF HasPosts(db) THEN [db |-> db, err |-> ErrDependentObjects]
    ELSE [db |-> [db EXCEPT !.users = {}, !.conn = "tablesDropped"], err |-> Nil]

\* sql.DB.Close: closes the pool; nil on a pool that is closed already.
DBClose(db) == [db |-> [db EXCEPT !.conn = "closed"], err |-> Nil]

\* row.Scan: sql.ErrNoRows when the query returned no row.
ScanRow(q) ==
    IF q.err # Nil THEN [rows |-> {}, err |-> q.err]
    ELSE IF q.rows = {} THEN [rows |-> {}, err |-> ErrNoRows]
    ELSE [rows |-> {CHOOSE r \in q.rows : TRUE}, err |-> Nil]

(***************************************************************************)
(* The store methods.  Each returns a record [db, id, ent, err]: the       *)
(* database it leaves, the identifier it returns, the entities it returns  *)
(* (a pointer is a set with at most one row, nil is the empty set) and     *)
(* its error.                                                              *)
(***************************************************************************)
Ret(db, id, ent, err) == [db |-> db, id |-> id, ent |-> ent, err |-> err]

\* Fault: GetUser without the sql.ErrNoRows branch.
GetUser_NoRowsIsError(db, id) ==
    LET row == ScanRow(SelectUser(db, id)) IN
    IF row.err # Nil
        THEN Ret(db, id, {}, Wrap("error finding user in db", row.err))
    ELSE Ret(db, id, row.rows, Nil)

GetUser(db, id) ==
    LET row == ScanRow(SelectUser(db, id)) IN
    IF row.err = ErrNoRows THEN Ret(db, id, {}, Nil)
    ELSE IF row.err # Nil
        THEN Ret(db, id, {}, Wrap("error finding user in db", row.err))
    ELSE Ret(db, id, row.rows, Nil)

\* Fault: CreateUser passing email and name to the INSERT in the wrong order.
CreateUser_SwappedArgs(db, id, name, email) ==
    LET ins == InsertUser(db, id, email, name) IN
    IF ins.err # Nil
        THEN Ret(ins.db, id, {}, Wrap("error while inserting user", ins.err))
    ELSE Ret(ins.db, id, {}, Nil)

\* id is the value m.idManager.UUID() returned.
CreateUser(db, id, name, email) ==
    LET ins == InsertUser(db, id, name, email) IN
    IF ins.err # Nil
        THEN Ret(ins.db, id, {}, Wrap("error while inserting user", ins.err))
    ELSE Ret(ins.db, id, {}, Nil)

\* Fault: UpdateUser without the "user == nil" branch.
UpdateUserCheck_NoAbsentCheck(db, id) ==
    LET user == GetUser(db, id) IN
    IF user.err # Nil THEN Wrap("failed to check for existing user", user.err)
    ELSE Nil

\* The existence check of UpdateUser: its error, nil when the user exists.
UpdateUserCheck(db, id) ==
    LET user == GetUser(db, id) IN
    IF user.err # Nil THEN Wrap("failed to check for existing user", user.err)
    ELSE IF user.ent = {} THEN <<"user doesn't exist - create one first">>
    ELSE Nil

\* Fault: the UPDATE of the name without the name != "" guard.
UpdateUserSetName_Unguarded(db, id, name) ==
    LET upd == UpdateUserName(db, name, id) IN
    IF upd.err # Nil
        THEN [db |-> upd.db, err |-> Wrap("error while updating user", upd.err)]
    ELSE upd

\* if name != "" { UPDATE users SET name ... }
UpdateUserSetName(db, id, name) ==
    IF name # ""
        THEN LET upd == UpdateUserName(db, name, id) IN
             IF upd.err # Nil
                 THEN [db |-> upd.db, err |-> Wrap("error while updating user", upd.err)]
             ELSE upd
    ELSE [db |-> db, err |-> Nil]

\* if email != "" { UPDATE users SET email ... }
UpdateUserSetEmail(db, id, email) ==
    IF email # ""
        THEN LET upd == UpdateUserEmail(db, email, id) IN
             IF upd.err # Nil
                 THEN [db |-> upd.db, err |-> Wrap("error while updating user", upd.err)]
             ELSE upd
    ELSE [db |-> db, err |-> Nil]

\* Fault: UpdateUser as one transaction, rolled back when a statement fails.
UpdateUser_Atomic(db, id, name, email) ==
    IF UpdateUserCheck(db, id) # Nil THEN Ret(db, id, {}, UpdateUserCheck(db, id))
    ELSE LET n == UpdateUserSetName(db, id, name) IN
         IF n.err # Nil THEN Ret(db, id, {}, n.err)
         ELSE LET e == UpdateUserSetEmail(n.db, id, email) IN
              IF e.err # Nil THEN Ret(db, id, {}, e.err)
              ELSE Ret(e.db, id, {}, Nil)

UpdateUser(db, id, name, email) ==
    IF UpdateUserCheck(db, id) # Nil THEN Ret(db, id, {}, UpdateUserCheck(db, id))
    ELSE LET n == UpdateUserSetName(db, id, name) IN
         IF n.err # Nil THEN Ret(n.db, id, {}, n.err)
         ELSE LET e == UpdateUserSetEmail(n.db, id, email) IN
              IF e.err # Nil THEN Ret(e.db, id, {}, e.err)
              ELSE Ret(e.db, id, {}, Nil)

\* Fault: DeleteUser without the "user == nil" branch.
DeleteUserCheck_NoAbsentCheck(db, id) == GetUser(db, id).err

\* The existence check of DeleteUser: its error, nil when the user exists.
DeleteUserCheck(db, id) ==
    LET user == GetUser(db, id) IN
    IF user.err # Nil THEN user.err
    ELSE IF user.ent = {} THEN <<"user does not exist for ID", id>>
    ELSE Nil

\* The DELETE of DeleteUser.
DeleteUserExec(db, id) ==
    LET del == DeleteUserRow(db, id) IN
    IF del.err # Nil
        THEN [db |-> del.db, err |-> Wrap("error deleting user", del.err)]
    ELSE del

DeleteUser(db, id) ==
    IF DeleteUserCheck(db, id) # Nil THEN Ret(db, id, {}, DeleteUserCheck(db, id))
    ELSE LET del == DeleteUserExec(db, id) IN Ret(del.db, id, {}, del.err)

GetAllPosts(db, userID) ==
    LET q == SelectPostsOfUser(db, userID) IN
    IF q.err # Nil
        THEN Ret(db, userID, {}, Wrap("failed to fetch posts for user", q.err))
    ELSE Ret(db, userID, q.rows, Nil)

GetPost(db, postID) ==
    LET row == ScanRow(SelectPost(db, postID)) IN
    IF row.err = ErrNoRows THEN Ret(db, postID, {}, Nil)
    ELSE IF row.err # Nil
        THEN Ret(db, postID, {}, Wrap("error finding post in db", row.err))
    ELSE Ret(db, postID, row.rows, Nil)

\* postID is the value m.idManager.UUID() returned.
CreatePost(db, postID, userID, title, content) ==
    LET ins == InsertPost(db, postID, userID, title, content) IN
    IF ins.err # Nil
        THEN Ret(ins.db, postID, {}, Wrap("error creating new post", ins.err))
    ELSE Ret(ins.db, postID, {}, Nil)

\* The existence check of UpdatePost: its error, nil when the post exists.
UpdatePostCheck(db, postID) ==
    LET post == GetPost(db, postID) IN
    IF post.err # Nil THEN Wrap("error getting post", post.err)
    ELSE IF post.ent = {} THEN <<"post doesn't exist for ID", postID>>
    ELSE Nil

\* if title != "" { UPDATE posts SET title ... }
UpdatePostSetTitle(db, postID, title) ==
    IF title # ""
        THEN LET upd == UpdatePostTitle(db, title, postID) IN
             IF upd.err # Nil
                 THEN [db |-> upd.db, err |-> Wrap("error while updating post", upd.err)]
             ELSE upd
    ELSE [db |-> db, err |-> Nil]

\* if content != "" { UPDATE posts SET content ... }
UpdatePostSetContent(db, postID, content) ==
    IF content # ""
        THEN LET upd == UpdatePostContent(db, content, postID) IN
             IF upd.err # Nil
                 THEN [db |-> upd.db, err |-> Wrap("error while updating post", upd.err)]
             ELSE upd
    ELSE [db |-> db, err |-> Nil]

UpdatePost(db, postID, title, content) ==
    IF UpdatePostCheck(db, postID) # Nil
        THEN Ret(db, postID, {}, UpdatePostCheck(db, postID))
    ELSE LET t == UpdatePostSetTitle(db, postID, title) IN
         IF t.err # Nil THEN Ret(t.db, postID, {}, t.err)
         ELSE LET c == UpdatePostSetContent(t.db, postID, content) IN
              IF c.err # Nil THEN Ret(c.db, postID, {}, c.err)
              ELSE Ret(c.db, postID, {}, Nil)

\* The existence check of DeletePost: its error, nil when the post exists.
DeletePostCheck(db, postID) ==
    LET post == GetPost(db, postID) IN
    IF post.err # Nil THEN Wrap("error getting post", post.err)
    ELSE IF post.ent = {} THEN <<"cannot delete post that doesn't exist">>
    ELSE Nil

\* The DELETE of DeletePost.
DeletePostExec(db, postID) ==
    LET del == DeletePostRow(db, postID) IN
    IF del.err # Nil
        THEN [db |-> del.db, err |-> Wrap("error deleting post", del.err)]
    ELSE del

DeletePost(db, postID) ==
    IF DeletePostCheck(db, postID) # Nil
        THEN Ret(db, postID, {}, DeletePostCheck(db, postID))
    ELSE LET del == DeletePostExec(db, postID) IN Ret(del.db, postID, {}, del.err)

(***************************************************************************)
(* HTTP requests and responses.                                            *)
(*                                                                         *)
(* A request is its route (op), whether its body decodes into the request  *)
(* structure (ok), the fields of the structure (a field the body leaves    *)
(* out is the empty string, and so is every field of a body that does not  *)
(* decode), and gen, the identifier the identifier provider returns if     *)
(* the handler asks for one.                                               *)
(***************************************************************************)
Request(op, ok, id, userID, name, email, title, content, gen) ==
    [op |-> op, ok |-> ok, id |-> id, user_id |-> userID, name |-> name,
     email |-> email, title |-> title, content |-> content, gen |-> gen]

Undecodable(op) == Request(op, FALSE, "", "", "", "", "", "", "")
ByID(op, id) == Request(op, TRUE, id, "", "", "", "", "", "")

GetUserRequests == {ByID("GetUser", id) : id \in IDs} \cup {Undecodable("GetUser")}
CreateUserRequests ==
    {Request("CreateUser", TRUE, "", "", n, e, "", "", g)
        : n \in Names, e \in Emails, g \in GenIDs}
    \cup {Undecodable("CreateUser")}
UpdateUserRequests ==
    {Request("UpdateUser", TRUE, id, "", n, e, "", "", "")
        : id \in IDs, n \in Names, e \in Emails}
    \cup {Undecodable("UpdateUser")}
DeleteUserRequests ==
    {ByID("DeleteUser", id) : id \in IDs} \cup {Undecodable("DeleteUser")}
GetAllPostsRequests ==
    {Request("GetAllPosts", TRUE, "", u, "", "", "", "", "") : u \in IDs}
    \cup {Undecodable("GetAllPosts")}
GetPostRequests == {ByID("GetPost", id) : id \in IDs} \cup {Undecodable("GetPost")}
CreatePostRequests ==
    {Request("CreatePost", TRUE, "", u, "", "", t, c, g)
        : u \in IDs, t \in Titles, c \in Contents, g \in GenIDs}
    \cup {Undecodable("CreatePost")}
UpdatePostRequests ==
    {Request("UpdatePost", TRUE, id, "", "", "", t, c, "")
        : id \in IDs, t \in Titles, c \in Contents}
    \cup {Undecodable("UpdatePost")}
DeletePostRequests ==
    {ByID("DeletePost", id) : id \in IDs} \cup {Undecodable("DeletePost")}

\* The field the request structure marks "// required".
RequiredField(req) ==
    CASE req.op \in {"GetUser", "UpdateUser", "DeleteUser",
                     "GetPost", "UpdatePost", "DeletePost"} -> req.id
      [] req.op = "CreateUser" -> req.email
      [] req.op \in {"GetAllPosts", "CreatePost"} -> req.user_id
      [] OTHER -> "none"

\* json.NewDecoder(r.Body).Decode(&req)
Decode(req) == IF req.ok THEN Nil ELSE ErrDecode

\* A response: the status code, the shape of the body ("error": the text
\* of an error; "id", "user", "post", "posts": the JSON response structure
\* of that shape), and the body's content.
Response(status, body, error, id, ent) ==
    [status |-> status, body |-> body, error |-> error, id |-> id, ent |-> ent]

\* http.Error(w, err.Error(), code)
HttpError(err, code) == Response(code, "error", err, "", {})
\* json.NewEncoder(w).Encode(res): the first write sends status 200.
JsonID(id) == Response(StatusOK, "id", Nil, id, {})
JsonEntity(body, ent) == Response(StatusOK, body, Nil, "", ent)
\* err.Error() on a nil error: the handler panics before it writes anything,
\* and the client gets no HTTP response (status 0 stands for "none").
Panicked ==
    Response(0, "panic",
             <<"runtime error: invalid memory address or nil pointer dereference">>,
             "", {})

\* No exchange in progress.
Idle == [req |-> Request("none", FALSE, "", "", "", "", "", "", ""),
         resp |-> Response(0, "none", Nil, "", {}),
         pre |-> EmptyDB]

\* The outcome of a handler: the database it leaves and its response.
Outcome(db, resp) == [db |-> db, resp |-> resp]

(***************************************************************************)
(* The handlers, as functions from the database and the request to the     *)
(* outcome.                                                                *)
(***************************************************************************)
GetUserOutcome(db, req) ==
    IF Decode(req) # Nil THEN Outcome(db, HttpError(Decode(req), StatusBadRequest))
    ELSE IF req.id = "" THEN Outcome(db, HttpError(ErrBadRequest, StatusBadRequest))
    ELSE LET r == GetUser(db, req.id) IN
         IF r.err # Nil
             THEN Outcome(r.db, HttpError(r.err, StatusInternalServerError))
         ELSE Outcome(r.db, JsonEntity("user", r.ent))

\* Fault: HandleCreateUser calling the store before validating the email.
CreateUserOutcome_StoreFirst(db, req) ==
    IF Decode(req) # Nil THEN Outcome(db, HttpError(Decode(req), StatusBadRequest))
    ELSE LET r == CreateUser(db, req.gen, req.name, req.email) IN
         IF req.email = ""
             THEN Outcome(r.db, HttpError(ErrBadRequest, StatusBadRequest))
         ELSE IF r.err # Nil
             THEN Outcome(r.db, HttpError(r.err, StatusInternalServerError))
         ELSE Outcome(r.db, JsonID(r.id))

CreateUserOutcome(db, req) ==
    IF Decode(req) # Nil THEN Outcome(db, HttpError(Decode(req), StatusBadRequest))
    ELSE IF req.email = ""
        THEN Outcome(db, HttpError(ErrBadRequest, StatusBadRequest))
    ELSE LET r == CreateUser(db, req.gen, req.name, req.email) IN
         IF r.err # Nil
             THEN Outcome(r.db, HttpError(r.err, StatusInternalServerError))
         ELSE Outcome(r.db, JsonID(r.id))

UpdateUserOutcome(db, req) ==
    IF Decode(req) # Nil THEN Outcome(db, HttpError(Decode(req), StatusBadRequest))
    ELSE IF req.id = "" THEN Outcome(db, HttpError(ErrBadRequest, StatusBadRequest))
    ELSE LET r == UpdateUser(db, req.id, req.name, req.email) IN
         IF r.err # Nil
             THEN Outcome(r.db, HttpError(r.err, StatusInternalServerError))
         ELSE Outcome(r.db, JsonID(r.id))

\* The validation branch reads err.Error() of the decode error, which is
\* nil there: the handler panics.
DeleteUserOutcome(db, req) ==
    IF Decode(req) # Nil THEN Outcome(db, HttpError(Decode(req), StatusBadRequest))
    ELSE IF req.id = ""
        THEN IF Decode(req) = Nil THEN Outcome(db, Panicked)
             ELSE Outcome(db, HttpError(Decode(req), StatusBadRequest))
    ELSE LET r == DeleteUser(db, req.id) IN
         IF r.err # Nil
             THEN Outcome(r.db, HttpError(r.err, StatusInternalServerError))
         ELSE Outcome(r.db, JsonID(r.id))

GetAllPostsOutcome(db, req) ==
    IF Decode(req) # Nil THEN Outcome(db, HttpError(Decode(req), StatusBadRequest))
    ELSE IF req.user_id = ""
        THEN Outcome(db, HttpError(ErrBadRequest, StatusBadRequest))
    ELSE LET r == GetAllPosts(db, req.user_id) IN
         IF r.err # Nil
             THEN Outcome(r.db, HttpError(r.err, StatusInternalServerError))
         ELSE Outcome(r.db, JsonEntity("posts", r.ent))

GetPostOutcome(db, req) ==
    IF Decode(req) # Nil THEN Outcome(db, HttpError(Decode(req), StatusBadRequest))
    ELSE IF req.id = "" THEN Outcome(db, HttpError(ErrBadRequest, StatusBadRequest))
    ELSE LET r == GetPost(db, req.id) IN
         IF r.err # Nil
             THEN Outcome(r.db, HttpError(r.err, StatusInternalServerError))
         ELSE Outcome(r.db, JsonEntity("post", r.ent))

CreatePostOutcome(db, req) ==
    IF Decode(req) # Nil THEN Outcome(db, HttpError(Decode(req), StatusBadRequest))
    ELSE IF req.user_id = ""
        THEN Outcome(db, HttpError(ErrBadRequest, StatusBadRequest))
    ELSE LET r == CreatePost(db, req.gen, req.user_id, req.title, req.content) IN
         IF r.err # Nil
             THEN Outcome(r.db, HttpError(r.err, StatusInternalServerError))
         ELSE Outcome(r.db, JsonID(r.id))

UpdatePostOutcome(db, req) ==
    IF Decode(req) # Nil THEN Outcome(db, HttpError(Decode(req), StatusBadRequest))
    ELSE IF req.id = "" THEN Outcome(db, HttpError(ErrBadRequest, StatusBadRequest))
    ELSE LET r == UpdatePost(db, req.id, req.title, req.content) IN
         IF r.err # Nil
             THEN Outcome(r.db, HttpError(r.err, StatusInternalServerError))
         ELSE Outcome(r.db, JsonID(r.id))

DeletePostOutcome(db, req) ==
    IF Decode(req) # Nil THEN Outcome(db, HttpError(Decode(req), StatusBadRequest))
    ELSE IF req.id = "" THEN Outcome(db, HttpError(ErrBadRequest, StatusBadRequest))
    ELSE LET r == DeletePost(db, req.id) IN
         IF r.err # Nil
             THEN Outcome(r.db, HttpError(r.err, StatusInternalServerError))
         ELSE Outcome(r.db, JsonID(r.id))

(***************************************************************************)
(* The sequential service: one request at a time, as the tests drive it.   *)
(* A handler runs from the idle state and leaves its exchange (request,    *)
(* response, and the database it started from) on the wire; Deliver hands  *)
(* the response to the client and the service is idle again.               *)
(***************************************************************************)
Serve(req, out) ==
    /\ exch = Idle
    /\ users' = out.db.users
    /\ posts' = out.db.posts
    /\ exch' = [req |-> req, resp |-> out.resp, pre |-> DB]
    /\ UNCHANGED <<conn, inflight, nreq>>

HandleGetUser == \E req \in GetUserRequests : Serve(req, GetUserOutcome(DB, req))
HandleCreateUser ==
    \E req \in CreateUserRequests : Serve(req, CreateUserOutcome(DB, req))
HandleUpdateUser ==
    \E req \in UpdateUserRequests : Serve(req, UpdateUserOutcome(DB, req))
HandleDeleteUser ==
    \E req \in DeleteUserRequests : Serve(req, DeleteUserOutcome(DB, req))
HandleGetAllPosts ==
    \E req \in GetAllPostsRequests : Serve(req, GetAllPostsOutcome(DB, req))
HandleGetPost == \E req \in GetPostRequests : Serve(req, GetPostOutcome(DB, req))
HandleCreatePost ==
    \E req \in CreatePostRequests : Serve(req, CreatePostOutcome(DB, req))
HandleUpdatePost ==
    \E req \in UpdatePostRequests : Serve(req, UpdatePostOutcome(DB, req))
HandleDeletePost ==
    \E req \in DeletePostRequests : Serve(req, DeletePostOutcome(DB, req))

Deliver ==
    /\ exch # Idle
    /\ exch' = Idle
    /\ UNCHANGED <<users, posts, conn, inflight, nreq>>

\* App.Close: drops table posts, then table users, then closes the pool;
\* it returns at the first statement that fails.
Close(db) ==
    LET p == DropTablePosts(db) IN
    IF p.err # Nil THEN p
    ELSE LET u == DropTableUsers(p.db) IN
         IF u.err # Nil THEN u
         ELSE DBClose(u.db)

\* A caller invokes App.Close between two requests.  On a database that
\* is closed already the first DROP fails and nothing changes.
CallClose ==
    /\ exch = Idle
    /\ conn = "open"
    /\ users' = Close(DB).db.users
    /\ posts' = Close(DB).db.posts
    /\ conn' = Close(DB).db.conn
    /\ UNCHANGED <<exch, inflight, nreq>>

\* A slot of the concurrent service: the request, the handler's position
\* (pc) and, once the handler has returned, its response.
Slot(req, pc, resp) == [req |-> req, pc |-> pc, resp |-> resp]
FreeSlot == Slot(Idle.req, "free", Idle.resp)
NoInflight == [s \in Slots |-> FreeSlot]

\* The tables exist and are empty (ensureTablesExists on a fresh database).
Init ==
    /\ users = {}
    /\ posts = {}
    /\ conn = "open"
    /\ exch = Idle
    /\ inflight = NoInflight
    /\ nreq = 0

Next ==
    \/ HandleGetUser
    \/ HandleCreateUser
    \/ HandleUpdateUser
    \/ HandleDeleteUser
    \/ HandleGetAllPosts
    \/ HandleGetPost
    \/ HandleCreatePost
    \/ HandleUpdatePost
    \/ HandleDeletePost
    \/ Deliver
    \/ CallClose

Spec == Init /\ [][Next]_vars

(***************************************************************************)
(* The concurrent service: net/http runs every request in its own          *)
(* goroutine, and the goroutines share nothing but the database.  A        *)
(* handler's steps are its SQL statements; what it does between two of     *)
(* them is local.  The positions of a handler:                             *)
(*   "exec"    about to run the one statement of a get or a create;        *)
(*   "check"   about to run the existence check of an update or a delete;  *)
(*   "first"   about to run the first UPDATE (name, title), if any;        *)
(*   "second"  about to run the second UPDATE (email, content), if any;    *)
(*   "delete"  about to run the DELETE;                                    *)
(*   "done"    returned, the response is written.                          *)
(***************************************************************************)
\* The workload of the concurrent service: the requests on well-formed
\* ids that reach the store, and one request that is refused.
ConcRequests ==
    {r \in CreateUserRequests :
        r.ok /\ r.name = "n1" /\ r.email \in {"e1", "e2"} /\ IsUUID(r.gen)}
    \cup {r \in UpdateUserRequests :
        r.ok /\ IsUUID(r.id) /\ r.email \in {"", "e2"}}
    \cup {r \in DeleteUserRequests : r.ok /\ IsUUID(r.id)}
    \cup {r \in GetUserRequests : r.ok /\ IsUUID(r.id)}
    \cup {r \in CreatePostRequests :
        r.ok /\ IsUUID(r.user_id) /\ IsUUID(r.gen)
             /\ r.title = "t1" /\ r.content = ""}
    \cup {r \in UpdatePostRequests :
        r.ok /\ IsUUID(r.id) /\ r.title = "" /\ r.content = "c1"}
    \cup {r \in DeletePostRequests : r.ok /\ IsUUID(r.id)}
    \cup {r \in GetPostRequests : r.ok /\ IsUUID(r.id)}
    \cup {r \in GetAllPostsRequests : r.ok /\ IsUUID(r.user_id)}
    \cup {Undecodable("UpdateUser")}

OneStatementOps == {"GetUser", "CreateUser", "GetAllPosts", "GetPost", "CreatePost"}
UpdateOps == {"UpdateUser", "UpdatePost"}
DeleteOps == {"DeleteUser", "DeletePost"}

\* Decoding and validation: the response of a request that is refused
\* before any statement, by the handler's own code.
OutcomeOf(db, req) ==
    CASE req.op = "GetUser" -> GetUserOutcome(db, req)
      [] req.op = "CreateUser" -> CreateUserOutcome(db, req)
      [] req.op = "UpdateUser" -> UpdateUserOutcome(db, req)
      [] req.op = "DeleteUser" -> DeleteUserOutcome(db, req)
      [] req.op = "GetAllPosts" -> GetAllPostsOutcome(db, req)
      [] req.op = "GetPost" -> GetPostOutcome(db, req)
      [] req.op = "CreatePost" -> CreatePostOutcome(db, req)
      [] req.op = "UpdatePost" -> UpdatePostOutcome(db, req)
      [] req.op = "DeletePost" -> DeletePostOutcome(db, req)

Refused(req) == ~req.ok \/ RequiredField(req) = ""

SetSlot(s, slot) == inflight' = [inflight EXCEPT ![s] = slot]
Finish(s, resp) == SetSlot(s, Slot(inflight[s].req, "done", resp))
Goto(s, pc) == SetSlot(s, Slot(inflight[s].req, pc, inflight[s].resp))
StoreError(err) == HttpError(err, StatusInternalServerError)

\* A request arrives; the handler decodes and validates it.
Accept(s, req) ==
    /\ inflight[s].pc = "free"
    /\ nreq < MaxRequests
    /\ nreq' = nreq + 1
    /\ IF Refused(req)
          THEN SetSlot(s, Slot(req, "done", OutcomeOf(DB, req).resp))
          ELSE SetSlot(s, Slot(req, IF req.op \in OneStatementOps
                                       THEN "exec" ELSE "check", Idle.resp))
    /\ UNCHANGED <<users, posts, conn, exch>>

\* The statement of a get or a create, and the response.
Exec(s) ==
    /\ inflight[s].pc = "exec"
    /\ LET out == OutcomeOf(DB, inflight[s].req) IN
          /\ users' = out.db.users
          /\ posts' = out.db.posts
          /\ Finish(s, out.resp)
    /\ UNCHANGED <<conn, exch, nreq>>

\* The existence check of an update or a delete.
Check(s) ==
    /\ inflight[s].pc = "check"
    /\ LET req == inflight[s].req
           err == CASE req.op = "UpdateUser" -> UpdateUserCheck(DB, req.id)
                    [] req.op = "DeleteUser" -> DeleteUserCheck(DB, req.id)
                    [] req.op = "UpdatePost" -> UpdatePostCheck(DB, req.id)
                    [] req.op = "DeletePost" -> DeletePostCheck(DB, req.id)
       IN IF err # Nil THEN Finish(s, StoreError(err))
          ELSE Goto(s, IF req.op \in UpdateOps THEN "first" ELSE "delete")
    /\ UNCHANGED <<users, posts, conn, exch, nreq>>

\* The UPDATE of the name (title), when one is supplied.
UpdateFirst(s) ==
    /\ inflight[s].pc = "first"
    /\ LET req == inflight[s].req
           upd == IF req.op = "UpdateUser"
                     THEN UpdateUserSetName(DB, req.id, req.name)
                     ELSE UpdatePostSetTitle(DB, req.id, req.title)
       IN /\ users' = upd.db.users
          /\ posts' = upd.db.posts
          /\ IF upd.err # Nil THEN Finish(s, StoreError(upd.err))
             ELSE Goto(s, "second")
    /\ UNCHANGED <<conn, exch, nreq>>

\* The UPDATE of the email (content), when one is supplied, and the response.
UpdateSecond(s) ==
    /\ inflight[s].pc = "second"
    /\ LET req == inflight[s].req
           upd == IF req.op = "UpdateUser"
                     THEN UpdateUserSetEmail(DB, req.id, req.email)
                     ELSE UpdatePostSetContent(DB, req.id, req.content)
       IN /\ users' = upd.db.users
          /\ posts' = upd.db.posts
          /\ IF upd.err # Nil THEN Finish(s, StoreError(upd.err))
             ELSE Finish(s, JsonID(req.id))
    /\ UNCHANGED <<conn, exch, nreq>>

\* The DELETE, and the response.
Delete(s) ==
    /\ inflight[s].pc = "delete"
    /\ LET req == inflight[s].req
           del == IF req.op = "DeleteUser" THEN DeleteUserExec(DB, req.id)
                  ELSE DeletePostExec(DB, req.id)
       IN /\ users' = del.db.users
          /\ posts' = del.db.posts
          /\ IF del.err # Nil THEN Finish(s, StoreError(del.err))
             ELSE Finish(s, JsonID(req.id))
    /\ UNCHANGED <<conn, exch, nreq>>

\* The client has the response; the goroutine ends.
Reply(s) ==
    /\ inflight[s].pc = "done"
    /\ SetSlot(s, FreeSlot)
    /\ UNCHANGED <<users, posts, conn, exch, nreq>>

\* App.Close running beside the handlers: its three statements, one at a
\* time; conn tells which one is next.
CloseDropPosts ==
    /\ conn = "open"
    /\ DropTablePosts(DB).err = Nil
    /\ users' = DropTablePosts(DB).db.users
    /\ posts' = DropTablePosts(DB).db.posts
    /\ conn' = DropTablePosts(DB).db.conn
    /\ UNCHANGED <<exch, inflight, nreq>>

CloseDropUsers ==
    /\ conn = "postsDropped"
    /\ DropTableUsers(DB).err = Nil
    /\ users' = DropTableUsers(DB).db.users
    /\ posts' = DropTableUsers(DB).db.posts
    /\ conn' = DropTableUsers(DB).db.conn
    /\ UNCHANGED <<exch, inflight, nreq>>

CloseDB ==
    /\ conn = "tablesDropped"
    /\ users' = DBClose(DB).db.users
    /\ posts' = DBClose(DB).db.posts
    /\ conn' = DBClose(DB).db.conn
    /\ UNCHANGED <<exch, inflight, nreq>>

ConcNext ==
    \/ \E s \in Slots, req \in ConcRequests : Accept(s, req)
    \/ \E s \in Slots : Exec(s)
    \/ \E s \in Slots : Check(s)
    \/ \E s \in Slots : UpdateFirst(s)
    \/ \E s \in Slots : UpdateSecond(s)
    \/ \E s \in Slots : Delete(s)
    \/ \E s \in Slots : Reply(s)
    \/ CloseDropPosts
    \/ CloseDropUsers
    \/ CloseDB

ConcSpec == Init /\ [][ConcNext]_vars

(***************************************************************************)
(* Properties of the sequential service.  In a state where an exchange is  *)
(* on the wire, exch.pre is the database the handler started from and DB   *)
(* the database it left.                                                   *)
(***************************************************************************)
Served(op) == exch.req.op = op
StoredUser(db, id) == \E u \in db.users : u.id = id
StoredPost(db, id) == \E p \in db.posts : p.id = id

MissingRequired == exch # Idle /\ exch.req.ok /\ RequiredField(exch.req) = ""

\* C1: in every handler, a request that decodes and whose required field is
\* empty is answered with status 400 and the fixed "missing required
\* parameters" message.
C1_MissingRequiredIs400 ==
    MissingRequired =>
        exch.resp = HttpError(ErrBadRequest, StatusBadRequest)

\* C1 holds of every handler but DeleteUser.
C1_AllButDeleteUser ==
    (MissingRequired /\ ~Served("DeleteUser")) =>
        exch.resp = HttpError(ErrBadRequest, StatusBadRequest)

\* C2 as claimed: a get of any non-empty id that no stored user (post) has
\* is answered with status 200 and a null entity (the tables existing).
C2_GetAbsentAnyID ==
    /\ (Served("GetUser") /\ exch.req.ok /\ exch.req.id # ""
            /\ HasUsers(exch.pre) /\ ~StoredUser(exch.pre, exch.req.id))
        => exch.resp = JsonEntity("user", {})
    /\ (Served("GetPost") /\ exch.req.ok /\ exch.req.id # ""
            /\ HasPosts(exch.pre) /\ ~StoredPost(exch.pre, exch.req.id))
        => exch.resp = JsonEntity("post", {})

\* C2 as amended: while the tables exist, a get of any well-formed (UUID)
\* id that no stored user (post) has is answered with status 200 and a null
\* entity, and leaves the database as it was; a non-empty id that is not a
\* UUID is answered 500, and so is every get once App.Close has run.
C2_GetAbsentUUID ==
    /\ (Served("GetUser") /\ exch.req.ok /\ IsUUID(exch.req.id)
            /\ HasUsers(exch.pre) /\ ~StoredUser(exch.pre, exch.req.id))
        => (exch.resp = JsonEntity("user", {}) /\ DB = exch.pre)
    /\ (Served("GetPost") /\ exch.req.ok /\ IsUUID(exch.req.id)
            /\ HasPosts(exch.pre) /\ ~StoredPost(exch.pre, exch.req.id))
        => (exch.resp = JsonEntity("post", {}) /\ DB = exch.pre)
    /\ ((Served("GetUser") \/ Served("GetPost")) /\ exch.req.ok
            /\ exch.req.id # "" /\ exch.pre.conn = "closed")
        => (exch.resp.status = StatusInternalServerError /\ DB = exch.pre)
    /\ ((Served("GetUser") \/ Served("GetPost")) /\ exch.req.ok
            /\ exch.req.id # "" /\ ~IsUUID(exch.req.id))
        => exch.resp.status = StatusInternalServerError

C2_Witness ==
    /\ Served("GetUser") /\ exch.req.ok /\ IsUUID(exch.req.id)
    /\ exch.pre.users # {} /\ ~StoredUser(exch.pre, exch.req.id)
    /\ exch.resp.status = StatusOK /\ exch.resp.ent = {}

\* C3: a successful CreateUser returns the identifier the provider produced
\* and a GetUser of it then returns that id with the supplied name and
\* email; likewise CreatePost and GetPost.
C3_CreateGetRoundTrip ==
    /\ (Served("CreateUser") /\ exch.resp.status = StatusOK) =>
        /\ exch.resp = JsonID(exch.req.gen)
        /\ GetUserOutcome(DB, ByID("GetUser", exch.resp.id)).resp
             = JsonEntity("user",
                   {User(exch.req.gen, exch.req.name, exch.req.email)})
    /\ (Served("CreatePost") /\ exch.resp.status = StatusOK) =>
        /\ exch.resp = JsonID(exch.req.gen)
        /\ GetPostOutcome(DB, ByID("GetPost", exch.resp.id)).resp
             = JsonEntity("post",
                   {Post(exch.req.gen, exch.req.user_id,
                         exch.req.title, exch.req.content)})

C3_Witness ==
    /\ Served("CreatePost") /\ exch.resp.status = StatusOK
    /\ exch.req.title # "" /\ exch.req.content # ""
    /\ \E u \in users : u.id = exch.req.user_id /\ u.name # ""
    /\ Cardinality(posts) = 2

\* C4: with a user of email e stored, a CreateUser with email e is answered
\* 500 and leaves the stored users as they were; the error is the
\* constraint violation whenever the generated id is a UUID.
C4_DuplicateEmailRejected ==
    (Served("CreateUser") /\ exch.req.ok
        /\ \E u \in exch.pre.users : u.email = exch.req.email) =>
        /\ exch.resp.status = StatusInternalServerError
        /\ users = exch.pre.users
        /\ posts = exch.pre.posts
        /\ IsUUID(exch.req.gen) =>
             exch.resp.error = Wrap("error while inserting user", ErrUniqueViolation)

C4_Witness ==
    /\ Served("CreateUser") /\ exch.req.ok
    /\ \E u \in exch.pre.users :
          u.email = exch.req.email /\ u.id # exch.req.gen
    /\ IsUUID(exch.req.gen) /\ ~StoredUser(exch.pre, exch.req.gen)
    /\ exch.resp.status = StatusInternalServerError

\* The value an update leaves in a field: the supplied one unless empty.
Overwrite(old, supplied) == IF supplied # "" THEN supplied ELSE old

\* C5: a successful update overwrites exactly the fields supplied non-empty,
\* keeps the fields supplied empty, leaves every other row of both tables
\* as it was, and answers with the id.
C5_UpdateOverwritesSupplied ==
    /\ (Served("UpdateUser") /\ exch.resp.status = StatusOK) =>
        /\ \E old \in exch.pre.users :
              /\ old.id = exch.req.id
              /\ users = (exch.pre.users \ {old}) \cup
                     {User(old.id, Overwrite(old.name, exch.req.name),
                           Overwrite(old.email, exch.req.email))}
        /\ posts = exch.pre.posts
        /\ exch.resp = JsonID(exch.req.id)
    /\ (Served("UpdatePost") /\ exch.resp.status = StatusOK) =>
        /\ \E old \in exch.pre.posts :
              /\ old.id = exch.req.id
              /\ posts = (exch.pre.posts \ {old}) \cup
                     {Post(old.id, old.user_id,
                           Overwrite(old.title, exch.req.title),
                           Overwrite(old.content, exch.req.content))}
        /\ users = exch.pre.users
        /\ exch.resp = JsonID(exch.req.id)

\* An update of the email alone, of a user with a name, next to another user.
C5_Witness ==
    /\ Served("UpdateUser") /\ exch.resp.status = StatusOK
    /\ exch.req.name = "" /\ exch.req.email # ""
    /\ Cardinality(users) = 2
    /\ \E old \in exch.pre.users :
          /\ old.id = exch.req.id /\ old.name # "" /\ old.email # exch.req.email
          /\ User(old.id, old.name, exch.req.email) \in users

\* C6: a successful delete answers 200 with the id and leaves the entity
\* absent: a get of the id then answers 200 with a null entity and a second
\* delete of it answers 500; a delete of a (non-empty) id that is not stored
\* answers 500 and changes nothing.
C6_DeleteThenAbsent ==
    /\ (Served("DeleteUser") /\ exch.resp.status = StatusOK) =>
        /\ exch.resp = JsonID(exch.req.id)
        /\ ~StoredUser(DB, exch.req.id)
        /\ GetUserOutcome(DB, ByID("GetUser", exch.req.id)).resp
             = JsonEntity("user", {})
        /\ DeleteUserOutcome(DB, ByID("DeleteUser", exch.req.id)).resp.status
             = StatusInternalServerError
    /\ (Served("DeletePost") /\ exch.resp.status = StatusOK) =>
        /\ exch.resp = JsonID(exch.req.id)
        /\ ~StoredPost(DB, exch.req.id)
        /\ GetPostOutcome(DB, ByID("GetPost", exch.req.id)).resp
             = JsonEntity("post", {})
        /\ DeletePostOutcome(DB, ByID("DeletePost", exch.req.id)).resp.status
             = StatusInternalServerError
    /\ (Served("DeleteUser") /\ exch.req.ok /\ exch.req.id # ""
            /\ ~StoredUser(exch.pre, exch.req.id)) =>
        (exch.resp.status = StatusInternalServerError /\ DB = exch.pre)
    /\ (Served("DeletePost") /\ exch.req.ok /\ exch.req.id # ""
            /\ ~StoredPost(exch.pre, exch.req.id)) =>
        (exch.resp.status = StatusInternalServerError /\ DB = exch.pre)

\* A post deleted while another post stays.
C6_Witness ==
    /\ Served("DeletePost") /\ exch.resp.status = StatusOK
    /\ StoredPost(exch.pre, exch.req.id)
    /\ posts # {}

\* C7: a CreatePost whose non-empty user_id no stored user has is answered
\* 500 and stores nothing; the error is the foreign-key violation whenever
\* the user_id is a UUID and the generated id a fresh UUID (and App.Close
\* has not dropped the tables).
C7_UnknownUserRejected ==
    (Served("CreatePost") /\ exch.req.ok /\ exch.req.user_id # ""
        /\ ~StoredUser(exch.pre, exch.req.user_id)) =>
        /\ exch.resp.status = StatusInternalServerError
        /\ posts = exch.pre.posts
        /\ users = exch.pre.users
        /\ (IsUUID(exch.req.user_id) /\ IsUUID(exch.req.gen)
                /\ ~StoredPost(exch.pre, exch.req.gen)
                /\ HasPosts(exch.pre)) =>
             exch.resp.error
                = Wrap("error creating new post", ErrForeignKeyViolation)

C7_Witness ==
    /\ Served("CreatePost") /\ exch.req.ok
    /\ IsUUID(exch.req.user_id) /\ ~StoredUser(exch.pre, exch.req.user_id)
    /\ IsUUID(exch.req.gen) /\ ~StoredPost(exch.pre, exch.req.gen)
    /\ exch.pre.users # {} /\ exch.pre.posts # {}
    /\ exch.resp.status = StatusInternalServerError
    /\ exch.resp.error = Wrap("error creating new post", ErrForeignKeyViolation)

\* C8: a successful DeleteUser(u) removes every post of u (a GetPost of
\* each answers 200 with a null post, GetAllPosts(u) answers no posts) and
\* leaves the posts of the other users as they were.
C8_CascadeDelete ==
    (Served("DeleteUser") /\ exch.resp.status = StatusOK) =>
        /\ posts = {p \in exch.pre.posts : p.user_id # exch.req.id}
        /\ users = {u \in exch.pre.users : u.id # exch.req.id}
        /\ \A p \in exch.pre.posts :
              p.user_id = exch.req.id =>
                 GetPostOutcome(DB, ByID("GetPost", p.id)).resp
                    = JsonEntity("post", {})
        /\ GetAllPostsOutcome(DB,
              Request("GetAllPosts", TRUE, "", exch.req.id, "", "", "", "", "")).resp
                 = JsonEntity("posts", {})

\* The deleted user owned a post, and a post of another user stays.
C8_Witness ==
    /\ Served("DeleteUser") /\ exch.resp.status = StatusOK
    /\ \E p \in exch.pre.posts : p.user_id = exch.req.id
    /\ posts # {}

\* C9: an update of a (non-empty) id that has no stored entity is answered
\* 500 and leaves both tables as they were, whatever fields are supplied;
\* the error is the not-found one whenever the id is a UUID (and App.Close
\* has not dropped the table).
C9_UpdateAbsentFails ==
    /\ (Served("UpdateUser") /\ exch.req.ok /\ exch.req.id # ""
            /\ ~StoredUser(exch.pre, exch.req.id)) =>
        /\ exch.resp.status = StatusInternalServerError
        /\ DB = exch.pre
        /\ (IsUUID(exch.req.id) /\ HasUsers(exch.pre)) =>
             exch.resp.error = <<"user doesn't exist - create one first">>
    /\ (Served("UpdatePost") /\ exch.req.ok /\ exch.req.id # ""
            /\ ~StoredPost(exch.pre, exch.req.id)) =>
        /\ exch.resp.status = StatusInternalServerError
        /\ DB = exch.pre
        /\ (IsUUID(exch.req.id) /\ HasPosts(exch.pre)) =>
             exch.resp.error = <<"post doesn't exist for ID", exch.req.id>>

C9_Witness ==
    /\ Served("UpdateUser") /\ exch.req.ok
    /\ IsUUID(exch.req.id) /\ ~StoredUser(exch.pre, exch.req.id)
    /\ exch.req.name # "" /\ exch.req.email # ""
    /\ exch.pre.users # {}
    /\ \A u \in exch.pre.users : u.email # exch.req.email
    /\ exch.resp.status = StatusInternalServerError

(***************************************************************************)
(* Properties of the concurrent service.                                   *)
(***************************************************************************)
\* C10: in every reachable state, whatever the interleaving of the
\* statements of CreateUser, UpdateUser and DeleteUser requests, no two
\* stored users have the same email; an UpdateUser about to set an email
\* that another user holds gets an error from the statement.
C10_EmailUnique ==
    /\ \A u, v \in users : u.email = v.email => u = v
    /\ \A s \in Slots :
          (/\ inflight[s].pc = "second"
           /\ inflight[s].req.op = "UpdateUser"
           /\ StoredUser(DB, inflight[s].req.id)
           /\ \E v \in users : /\ v.id # inflight[s].req.id
                               /\ v.email = inflight[s].req.email)
          => /\ UpdateUserSetEmail(DB, inflight[s].req.id,
                                   inflight[s].req.email).err
                   = Wrap("error while updating user", ErrUniqueViolation)
             /\ UpdateUserSetEmail(DB, inflight[s].req.id,
                                   inflight[s].req.email).db = DB

\* An UpdateUser was refused the email of another stored user.
C10_Witness ==
    \E s \in Slots :
        /\ inflight[s].pc = "done"
        /\ inflight[s].req.op = "UpdateUser"
        /\ inflight[s].resp
             = StoreError(Wrap("error while updating user", ErrUniqueViolation))
        /\ \E u, v \in users :
              /\ u.id = inflight[s].req.id /\ v.id # u.id
              /\ v.email = inflight[s].req.email /\ u.email # v.email


\* Slot s holds a CreateUser request whose INSERT has not been issued yet.
PendingCreateUser(s) ==
    /\ inflight[s].pc = "exec"
    /\ inflight[s].req.op = "CreateUser"

\* Slot s holds a CreateUser request that was answered with the new id.
CreatedUser(s) ==
    /\ inflight[s].pc = "done"
    /\ inflight[s].req.op = "CreateUser"
    /\ inflight[s].resp = JsonID(inflight[s].req.gen)

\* Two CreateUser requests with one email and distinct fresh generated ids
\* are both about to issue their INSERT, and table users is there and has
\* no user with the email.
CreateRace(s, t) ==
    /\ s # t
    /\ HasUsers(DB)
    /\ PendingCreateUser(s) /\ PendingCreateUser(t)
    /\ inflight[s].req.email = inflight[t].req.email
    /\ inflight[s].req.gen # inflight[t].req.gen
    /\ ~StoredUser(DB, inflight[s].req.gen)
    /\ ~StoredUser(DB, inflight[t].req.gen)
    /\ \A u \in users : u.email # inflight[s].req.email

\* C11: of two concurrent CreateUser requests with the same email and
\* distinct generated ids, issued while no stored user has that email, the
\* one whose INSERT runs first is answered 200 with its id and its user is
\* stored; the INSERT of the other, running while that user is stored, is
\* refused by the unique constraint and answered 500, the store unchanged,
\* so that exactly one user with that email exists afterwards.
C11_OneCreateWins ==
    /\ [][\A s, t \in Slots :
            (CreateRace(s, t) /\ Exec(s))
            => /\ CreatedUser(s)'
               /\ PendingCreateUser(t)'
               /\ users' = users \cup {User(inflight[s].req.gen,
                                            inflight[s].req.name,
                                            inflight[s].req.email)}]_vars
    /\ [][\A s, t \in Slots :
            (/\ s # t
             /\ CreatedUser(s) /\ PendingCreateUser(t)
             /\ inflight[s].req.email = inflight[t].req.email
             /\ inflight[s].req.gen # inflight[t].req.gen
             /\ \E u \in users : /\ u.id = inflight[s].req.gen
                                 /\ u.email = inflight[s].req.email
             /\ Exec(t))
            => /\ inflight'[t].pc = "done"
               /\ inflight'[t].resp
                    = StoreError(Wrap("error while inserting user",
                                      ErrUniqueViolation))
               /\ CreatedUser(s)'
               /\ users' = users
               /\ Cardinality({u \in users' :
                                 u.email = inflight[t].req.email}) = 1]_vars

\* Both requests of such a race are answered: one with its id, the other
\* with the unique violation, and the winner's user is the one stored.
C11_Witness ==
    \E s, t \in Slots :
        /\ s # t
        /\ CreatedUser(s)
        /\ inflight[t].pc = "done"
        /\ inflight[t].req.op = "CreateUser"
        /\ inflight[t].req.email = inflight[s].req.email
        /\ inflight[t].req.gen # inflight[s].req.gen
        /\ ~StoredUser(DB, inflight[t].req.gen)
        /\ inflight[t].resp
             = StoreError(Wrap("error while inserting user", ErrUniqueViolation))
        /\ {u \in users : u.email = inflight[s].req.email}
             = {User(inflight[s].req.gen, inflight[s].req.name,
                     inflight[s].req.email)}


\* Slot s holds an update whose existence check has passed and whose
\* entity is no longer in its table: a delete has committed since the check.
UpdateOfDeleted(s) ==
    /\ inflight[s].pc \in {"first", "second"}
    /\ IF inflight[s].req.op = "UpdateUser"
          THEN HasUsers(DB) /\ ~StoredUser(DB, inflight[s].req.id)
          ELSE HasPosts(DB) /\ ~StoredPost(DB, inflight[s].req.id)

\* C12: when a delete of the entity commits between the existence check of
\* an UpdateUser or UpdatePost and its UPDATE statements, each UPDATE
\* statement the request then runs changes nothing in the store (the
\* entity is not recreated) and raises no error, and the request is
\* answered with the id and status 200.
C12_UpdateOfDeletedIsNoOp ==
    [][\A s \in Slots :
         /\ (UpdateOfDeleted(s) /\ UpdateFirst(s))
            => /\ users' = users /\ posts' = posts
               /\ inflight'[s].pc = "second"
         /\ (UpdateOfDeleted(s) /\ UpdateSecond(s))
            => /\ users' = users /\ posts' = posts
               /\ inflight'[s].pc = "done"
               /\ inflight'[s].resp = JsonID(inflight[s].req.id)
               /\ inflight'[s].resp.status = StatusOK]_vars

\* An UpdateUser asking for the email of another stored user was answered
\* 200: its user was deleted by the DeleteUser of the other goroutine after
\* the check, or the unique constraint would have refused the email.
C12_Witness ==
    \E s, t \in Slots :
        /\ s # t
        /\ inflight[s].pc = "done"
        /\ inflight[s].req.op = "UpdateUser"
        /\ inflight[s].req.name # "" /\ inflight[s].req.email # ""
        /\ inflight[s].resp = JsonID(inflight[s].req.id)
        /\ ~StoredUser(DB, inflight[s].req.id)
        /\ \E v \in users : v.email = inflight[s].req.email
        /\ inflight[t].pc = "done"
        /\ inflight[t].req.op = "DeleteUser"
        /\ inflight[t].req.id = inflight[s].req.id
        /\ inflight[t].resp = JsonID(inflight[t].req.id)


\* Slot s holds a delete whose existence check has passed and whose row is
\* no longer in its table: another delete has committed since the check.
DeleteOfDeleted(s) ==
    /\ inflight[s].pc = "delete"
    /\ IF inflight[s].req.op = "DeleteUser"
          THEN HasUsers(DB) /\ ~StoredUser(DB, inflight[s].req.id)
          ELSE HasPosts(DB) /\ ~StoredPost(DB, inflight[s].req.id)

\* C13: when the row deletion of one delete request commits between the
\* existence check of a second delete of the same entity and that
\* request's own DELETE statement, the second request is answered with an
\* error (status 500): of two concurrent deletes of one entity at most one
\* reports success.
C13_SecondDeleteReportsError ==
    [][\A s \in Slots :
         (DeleteOfDeleted(s) /\ Delete(s))
         => /\ inflight'[s].pc = "done"
            /\ inflight'[s].resp.status = StatusInternalServerError]_vars


(***************************************************************************)
(* Further properties of the sequential service.                           *)
(***************************************************************************)
\* C14: no request changes the user_id of a stored post: a post that is
\* stored before and after a request (UpdatePost, UpdateUser, CreateUser,
\* CreatePost, DeletePost or any other) has the same user_id after it, so
\* the user_id is the one the post was created with for as long as the
\* post exists.
C14_UserIDImmutable ==
    [][\A p \in posts : \A q \in posts' :
          q.id = p.id => q.user_id = p.user_id]_vars

\* An UpdatePost changed the title or the content of a stored post and
\* left its user_id.
C14_Witness ==
    /\ Served("UpdatePost")
    /\ exch.resp = JsonID(exch.req.id)
    /\ \E p \in exch.pre.posts : \E q \in posts :
          /\ p.id = exch.req.id /\ q.id = p.id
          /\ q.user_id = p.user_id
          /\ q.title # p.title /\ q.content # p.content


\* C15 as claimed: GetAllPosts of any non-empty user_id is answered with
\* status 200 and exactly the stored posts of that user_id, the null list
\* when there is none (the tables existing).
C15_PostsOfAnyUserID ==
    (Served("GetAllPosts") /\ exch.req.ok /\ exch.req.user_id # ""
        /\ HasPosts(exch.pre))
    => exch.resp = JsonEntity("posts", {p \in exch.pre.posts :
                                          p.user_id = exch.req.user_id})

\* C15 as amended: while the tables exist, GetAllPosts of a well-formed
\* (UUID) user_id is answered with status 200 and exactly the stored posts
\* whose user_id is the requested one, the null list when the user has no
\* posts or does not exist, never a post of another user, and leaves the
\* database as it was; a non-empty user_id that is not a UUID is answered
\* 500, and so is every GetAllPosts once App.Close has run.
C15_PostsOfUUID ==
    /\ (Served("GetAllPosts") /\ exch.req.ok /\ exch.req.user_id # ""
            /\ exch.pre.conn = "closed")
        => (exch.resp.status = StatusInternalServerError /\ DB = exch.pre)
    /\ (Served("GetAllPosts") /\ exch.req.ok /\ IsUUID(exch.req.user_id)
            /\ HasPosts(exch.pre))
        => /\ exch.resp = JsonEntity("posts", {p \in exch.pre.posts :
                                                 p.user_id = exch.req.user_id})
           /\ exch.resp.status = StatusOK
           /\ \A p \in exch.resp.ent : p.user_id = exch.req.user_id
           /\ DB = exch.pre
    /\ (Served("GetAllPosts") /\ exch.req.ok
            /\ exch.req.user_id # "" /\ ~IsUUID(exch.req.user_id))
        => exch.resp.status = StatusInternalServerError

\* A GetAllPosts returned the posts of one user while a post of another
\* user was stored.
C15_Witness ==
    /\ Served("GetAllPosts") /\ exch.req.ok /\ IsUUID(exch.req.user_id)
    /\ exch.resp.status = StatusOK
    /\ exch.resp.ent # {}
    /\ \E p \in exch.pre.posts : p.user_id # exch.req.user_id


(***************************************************************************)
(* Further properties of the concurrent service.                           *)
(***************************************************************************)
\* C16: in every reachable state, whatever the interleaving of the
\* statements of create, update and delete requests on users and posts,
\* the user_id of every stored post is the id of a stored user.
C16_ReferentialIntegrity ==
    \A p \in posts : \E u \in users : u.id = p.user_id

\* A DeleteUser is between its existence check and its DELETE while the
\* CreatePost of the other goroutine has stored a post for that user.
C16_Witness ==
    \E s, t \in Slots :
        /\ s # t
        /\ inflight[s].pc = "delete"
        /\ inflight[s].req.op = "DeleteUser"
        /\ inflight[t].pc = "done"
        /\ inflight[t].req.op = "CreatePost"
        /\ inflight[t].req.user_id = inflight[s].req.id
        /\ inflight[t].resp = JsonID(inflight[t].req.gen)
        /\ \E p \in posts : /\ p.id = inflight[t].req.gen
                            /\ p.user_id = inflight[s].req.id


(***************************************************************************)
(* Properties of the sequential service: partial updates and refusals.     *)
(***************************************************************************)
\* C17: an UpdateUser of a stored user with a non-empty name and the email
\* of another stored user is answered with status 500 and the unique
\* violation of the email UPDATE, while the name UPDATE issued before it
\* stays applied: the user has the new name and its old email, and nothing
\* else in the database has changed.
C17_NameKeptWhenEmailFails ==
    \A old \in exch.pre.users :
        (/\ Served("UpdateUser") /\ exch.req.ok
         /\ old.id = exch.req.id
         /\ exch.req.name # "" /\ exch.req.email # ""
         /\ \E v \in exch.pre.users : /\ v.id # old.id
                                      /\ v.email = exch.req.email)
        => /\ exch.resp
                = HttpError(Wrap("error while updating user", ErrUniqueViolation),
                            StatusInternalServerError)
           /\ users = (exch.pre.users \ {old})
                         \cup {User(old.id, exch.req.name, old.email)}
           /\ posts = exch.pre.posts

\* Such an UpdateUser was answered 500 and the user's name is a new one.
C17_Witness ==
    /\ Served("UpdateUser") /\ exch.req.ok
    /\ exch.resp.status = StatusInternalServerError
    /\ \E old \in exch.pre.users : \E v \in exch.pre.users :
          /\ old.id = exch.req.id /\ v.id # old.id
          /\ v.email = exch.req.email
          /\ exch.req.name # "" /\ old.name # exch.req.name
          /\ User(old.id, exch.req.name, old.email) \in users
          /\ old \notin users


\* C18: decoding and validation come before any storage call: a request is
\* answered with status 400 only when its body does not decode or its
\* required field is empty, and every such request leaves the stored users
\* and posts exactly as they were.
C18_RefusedLeavesStore ==
    exch # Idle =>
        /\ exch.resp.status = StatusBadRequest
              => (Refused(exch.req) /\ DB = exch.pre)
        /\ Refused(exch.req) => DB = exch.pre

\* A CreateUser with an empty email was answered 400 although its INSERT
\* would have been accepted by the database.
C18_Witness ==
    /\ Served("CreateUser") /\ exch.req.ok
    /\ exch.req.email = "" /\ exch.req.name # ""
    /\ IsUUID(exch.req.gen) /\ ~StoredUser(exch.pre, exch.req.gen)
    /\ exch.pre.users # {}
    /\ \A u \in exch.pre.users : u.email # ""
    /\ exch.resp.status = StatusBadRequest
    /\ DB = exch.pre

=============================================================================
